---- MODULE Spec2Model ----
(***************************************************************************)
(* pytest-mcp, src/pytest_mcp/plugin.py: the hooks the plugin registers    *)
(* with pytest (pytest_configure, pytest_collection_modifyitems,           *)
(* pytest_addoption, pytest_report_header, pytest_exception_interact) and  *)
(* the part of the host runner that decides what they see (option parsing, *)
(* the order of the hooks, the test run).                                  *)
(***************************************************************************)
EXTENDS Integers, Sequences, FiniteSets, TLC

VARIABLES
    pc,       \* the host's phase
    hook,     \* the hook that returned last ("" before any)
    pre,      \* per hook, the arguments as they were when it was last entered
    parser,   \* pytest.Parser: the options registered so far, in order
    argv,     \* the command line: option name -> the text given for it
    option,   \* config.option: attribute name -> value
    inicfg,   \* the "markers" ini lines, in order
    items,    \* the list of collected items
    running,  \* index in items of the next test the host runs
    node,     \* pytest_exception_interact's node
    call,     \* pytest_exception_interact's call
    report,   \* pytest_exception_interact's report
    log,      \* the records the module's logger has received, in order
    ret       \* what the last hook returned

vars == <<pc, hook, pre, parser, argv, option, inicfg, items, running, node,
          call, report, log, ret>>

Range(s) == {s[i] : i \in DOMAIN s}

RECURSIVE Count(_, _)
\* s.count(x) for a list s
Count(x, s) == IF s = <<>> THEN 0
               ELSE (IF s[1] = x THEN 1 ELSE 0) + Count(x, Tail(s))

RECURSIVE Join(_)
\* "".join(parts)
Join(parts) == IF parts = <<>> THEN "" ELSE parts[1] \o Join(Tail(parts))

(***************************************************************************)
(* Python values.  A float is kept in tenths: 30.0 is Float(300).          *)
(***************************************************************************)
None == [t |-> "NoneType"]
Str(s) == [t |-> "str", s |-> s]
Bool(b) == [t |-> "bool", b |-> b]
Float(n) == [t |-> "float", tenths |-> n]
List(l) == [t |-> "list", l |-> l]
Pending == [t |-> "pending"]

\* bool(v)
Truthy(v) == CASE v.t = "NoneType" -> FALSE
               [] v.t = "str" -> v.s # ""
               [] v.t = "bool" -> v.b
               [] v.t = "float" -> v.tenths # 0
               [] OTHER -> TRUE

\* format(v, ""), what an f-string replacement field {v} produces
Format(v) == CASE v.t = "NoneType" -> "None"
               [] v.t = "str" -> v.s
               [] v.t = "bool" -> (IF v.b THEN "True" ELSE "False")
               [] v.t = "float" ->
                    ToString(v.tenths \div 10) \o "." \o ToString(v.tenths % 10)
               [] OTHER -> "?"

hasattr(obj, name) == name \in DOMAIN obj

(***************************************************************************)
(* Bounds of the model.                                                    *)
(***************************************************************************)
MaxItems == 2

(***************************************************************************)
(* pytest_configure                                                        *)
(***************************************************************************)
\* A "markers" ini line "name: help".
MarkerLine(name, help) == [name |-> name, help |-> help]

\* Variant: the mcp_integration line is left out.
MarkerLines_noIntegration ==
    << MarkerLine("mcp", "mark test as an MCP server test"),
       MarkerLine("mcp_slow", "mark test as a slow MCP test") >>

\* The lines pytest_configure hands to config.addinivalue_line, in order.
MarkerLines ==
    << MarkerLine("mcp", "mark test as an MCP server test"),
       MarkerLine("mcp_integration", "mark test as an MCP integration test"),
       MarkerLine("mcp_slow", "mark test as a slow MCP test") >>

\* Variant: the user's own asyncio_mode is overwritten.
ConfigureAsyncio_always(opt) ==
    IF hasattr(opt, "asyncio_mode")
    THEN [opt EXCEPT !["asyncio_mode"] = Str("auto")]
    ELSE opt

\* config.option after the asyncio_mode default has been applied.
ConfigureAsyncio(opt) ==
    IF hasattr(opt, "asyncio_mode") /\ ~Truthy(opt["asyncio_mode"])
    THEN [opt EXCEPT !["asyncio_mode"] = Str("auto")]
    ELSE opt

DebugRecord == [level |-> "DEBUG", msg |-> <<"pytest-mcp plugin configured">>]

pytest_configure ==
    /\ inicfg' = inicfg \o MarkerLines
    /\ option' = ConfigureAsyncio(option)
    /\ log' = Append(log, DebugRecord)
    /\ ret' = None
    /\ UNCHANGED <<parser, argv, items, running, node, call, report>>

(***************************************************************************)
(* pytest_collection_modifyitems                                           *)
(***************************************************************************)
\* item.add_marker(marker): appended to the item's own markers.
add_marker(item, marker) ==
    [item EXCEPT !.own_markers = Append(@, marker)]

\* Variant: one add_marker per fixture instead of one "or".
MarkItem_twice(item) ==
    IF item.hasFixturenames
    THEN LET fixture_names == Range(item.fixturenames)
             a == IF "mcp_client" \in fixture_names
                  THEN add_marker(item, "mcp") ELSE item
             b == IF "mcp_test_server" \in fixture_names
                  THEN add_marker(a, "mcp") ELSE a
         IN  IF "mcp_test_server" \in fixture_names
             THEN add_marker(b, "mcp_integration") ELSE b
    ELSE item

\* Variant: the second test repeats the first.
MarkItem_integrationForClient(item) ==
    IF item.hasFixturenames
    THEN LET fixture_names == Range(item.fixturenames)
             a == IF "mcp_client" \in fixture_names
                     \/ "mcp_test_server" \in fixture_names
                  THEN add_marker(item, "mcp") ELSE item
         IN  IF "mcp_client" \in fixture_names
                \/ "mcp_test_server" \in fixture_names
             THEN add_marker(a, "mcp_integration") ELSE a
    ELSE item

\* Variant: the markers are replaced instead of extended.
MarkItem_replace(item) ==
    IF item.hasFixturenames
    THEN LET fixture_names == Range(item.fixturenames)
             a == IF "mcp_client" \in fixture_names
                     \/ "mcp_test_server" \in fixture_names
                  THEN [item EXCEPT !.own_markers = <<"mcp">>] ELSE item
         IN  IF "mcp_test_server" \in fixture_names
             THEN add_marker(a, "mcp_integration") ELSE a
    ELSE item

\* The body of the loop over items.
MarkItem(item) ==
    IF item.hasFixturenames
    THEN LET fixture_names == Range(item.fixturenames)
             a == IF "mcp_client" \in fixture_names
                     \/ "mcp_test_server" \in fixture_names
                  THEN add_marker(item, "mcp") ELSE item
         IN  IF "mcp_test_server" \in fixture_names
             THEN add_marker(a, "mcp_integration") ELSE a
    ELSE item

pytest_collection_modifyitems ==
    /\ items' = [i \in DOMAIN items |-> MarkItem(items[i])]
    /\ ret' = None
    /\ UNCHANGED <<parser, argv, option, inicfg, running, node, call, report, log>>

(***************************************************************************)
(* pytest_addoption, and the host's parsing of the command line            *)
(***************************************************************************)
Opt(group, name, action, type, default) ==
    [group |-> group, name |-> name, action |-> action, type |-> type,
     default |-> default]

\* Variant: a default timeout of 3.0 seconds.
McpOptions_timeout3 ==
    << Opt("mcp", "--mcp-log-level", "store", "str", Str("WARNING")),
       Opt("mcp", "--mcp-timeout", "store", "float", Float(30)),
       Opt("mcp", "--mcp-update-snapshots", "store_true", "bool", Bool(FALSE)) >>

\* The three group.addoption calls, in order.
McpOptions ==
    << Opt("mcp", "--mcp-log-level", "store", "str", Str("WARNING")),
       Opt("mcp", "--mcp-timeout", "store", "float", Float(300)),
       Opt("mcp", "--mcp-update-snapshots", "store_true", "bool", Bool(FALSE)) >>

pytest_addoption ==
    /\ parser' = parser \o McpOptions
    /\ ret' = None
    /\ UNCHANGED <<argv, option, inicfg, items, running, node, call, report, log>>

\* argparse's dest of a long option: the dashes in front dropped, the others
\* turned into underscores.
Dest(name) == CASE name = "--mcp-log-level" -> "mcp_log_level"
                [] name = "--mcp-timeout" -> "mcp_timeout"
                [] name = "--mcp-update-snapshots" -> "mcp_update_snapshots"
                [] name = "--asyncio-mode" -> "asyncio_mode"

\* float(text) for the texts the model's command lines hold; Pending where
\* float() raises ValueError.
ParseFloat(text) == CASE text = "5" -> Float(50)
                      [] text = "0.5" -> Float(5)
                      [] text = "30" -> Float(300)
                      [] OTHER -> Pending

\* The value argparse stores for option o, given or not.
Converted(o, args) ==
    IF o.name \notin DOMAIN args THEN o.default
    ELSE IF o.action = "store_true" THEN Bool(TRUE)
    ELSE IF o.type = "float" THEN ParseFloat(args[o.name])
    ELSE Str(args[o.name])

\* The namespace parsing fills: one attribute per registered option.
Namespace(opts, args) ==
    [d \in {Dest(opts[i].name) : i \in DOMAIN opts} |->
        LET i == CHOOSE j \in DOMAIN opts : Dest(opts[j].name) = d
        IN  Converted(opts[i], args)]

\* argparse rejects a command line that names an unregistered option or gives
\* a text its type cannot convert.
Usable(opts, args) ==
    /\ \A n \in DOMAIN args : \E i \in DOMAIN opts : opts[i].name = n
    /\ \A i \in DOMAIN opts : Converted(opts[i], args) # Pending

(***************************************************************************)
(* pytest_report_header                                                    *)
(***************************************************************************)
\* Variant: a third line, for the update-snapshots flag.
ReportHeader_withSnapshots(opt) ==
    (IF hasattr(opt, "mcp_log_level")
     THEN <<Join(<<"mcp: log-level=", Format(opt["mcp_log_level"])>>)>>
     ELSE <<>>)
    \o (IF hasattr(opt, "mcp_timeout")
        THEN <<Join(<<"mcp: timeout=", Format(opt["mcp_timeout"]), "s">>)>>
        ELSE <<>>)
    \o (IF hasattr(opt, "mcp_update_snapshots")
        THEN <<Join(<<"mcp: update-snapshots=",
                      Format(opt["mcp_update_snapshots"])>>)>>
        ELSE <<>>)

\* The list the hook builds.
ReportHeader(opt) ==
    (IF hasattr(opt, "mcp_log_level")
     THEN <<Join(<<"mcp: log-level=", Format(opt["mcp_log_level"])>>)>>
     ELSE <<>>)
    \o (IF hasattr(opt, "mcp_timeout")
        THEN <<Join(<<"mcp: timeout=", Format(opt["mcp_timeout"]), "s">>)>>
        ELSE <<>>)

pytest_report_header ==
    /\ ret' = List(ReportHeader(option))
    /\ UNCHANGED <<parser, argv, option, inicfg, items, running, node, call,
                   report, log>>

(***************************************************************************)
(* pytest_exception_interact                                               *)
(***************************************************************************)
ConnectionHint ==
    "Check that your mcp_server fixture returns valid server parameters."
TimeoutHint == "Consider increasing timeout with --mcp-timeout option."

\* An f-string is kept as the list of its pieces, literal and formatted.
ErrorRecord(head, n, excinfo, hint) ==
    [level |-> "ERROR",
     msg |-> <<head, n.nodeid, ": ", Format(excinfo.value), "\n", hint>>]

\* Variant: the type is matched as isinstance would, through its bases.
ErrorRecords_bySubclass(n, c) ==
    IF c.excinfo = None THEN <<>>
    ELSE IF "ConnectionError" \in c.excinfo.type.mro
    THEN <<ErrorRecord("MCP connection failed in ", n, c.excinfo, ConnectionHint)>>
    ELSE IF "TimeoutError" \in c.excinfo.type.mro
    THEN <<ErrorRecord("MCP operation timed out in ", n, c.excinfo, TimeoutHint)>>
    ELSE <<>>

\* The records one call of the hook hands to logger.error.
ErrorRecords(n, c) ==
    IF c.excinfo = None THEN <<>>
    ELSE IF c.excinfo.type.name = "ConnectionError"
    THEN <<ErrorRecord("MCP connection failed in ", n, c.excinfo, ConnectionHint)>>
    ELSE IF c.excinfo.type.name = "TimeoutError"
    THEN <<ErrorRecord("MCP operation timed out in ", n, c.excinfo, TimeoutHint)>>
    ELSE <<>>

\* Variant: the hook turns the report into a pass.
pytest_exception_interact_rewritesReport ==
    /\ log' = log \o ErrorRecords(node, call)
    /\ ret' = None
    /\ report' = [report EXCEPT !.outcome = "passed"]
    /\ UNCHANGED <<parser, argv, option, inicfg, items, running, node, call>>

pytest_exception_interact ==
    /\ log' = log \o ErrorRecords(node, call)
    /\ ret' = None
    /\ UNCHANGED <<parser, argv, option, inicfg, items, running, node, call,
                   report>>

(***************************************************************************)
(* The values the hooks are given.                                         *)
(***************************************************************************)
NodeId(i) == "tests/test_server.py::test_" \o ToString(i)

Item(i, has, fixturenames, own_markers) ==
    [nodeid |-> NodeId(i), hasFixturenames |-> has,
     fixturenames |-> fixturenames, own_markers |-> own_markers]

FixtureOrder == <<"tmp_path", "mcp_server_env", "mcp_client", "mcp_test_server">>

\* The fixture closures of the model's tests: every selection of FixtureOrder.
FixtureLists ==
    {SelectSeq(FixtureOrder, LAMBDA f : f \in S) : S \in SUBSET Range(FixtureOrder)}

\* The markers a test already carries when it is collected.
UserMarkers == {<<>>, <<"slow">>, <<"mcp">>}

\* The i-th collected item: a test function with its fixture closure, or an
\* item of another kind, without the fixturenames attribute.
ItemsAt(i, fixtureLists, markerLists) ==
    {Item(i, TRUE, f, m) : f \in fixtureLists, m \in markerLists}
    \cup {Item(i, FALSE, <<>>, m) : m \in markerLists}

ExcType(module, name, mro) == [module |-> module, name |-> name, mro |-> mro]

ExcTypes ==
    { ExcType("builtins", "ConnectionError", {"ConnectionError", "OSError"}),
      ExcType("builtins", "ConnectionRefusedError",
              {"ConnectionRefusedError", "ConnectionError", "OSError"}),
      ExcType("requests", "ConnectionError", {"ConnectionError", "IOError"}),
      ExcType("builtins", "TimeoutError", {"TimeoutError", "OSError"}),
      ExcType("mcp", "McpTimeoutError", {"McpTimeoutError", "TimeoutError", "OSError"}),
      ExcType("builtins", "ValueError", {"ValueError"}) }

\* str(exc_value) is the exception's message.
ExcValues == {Str("server not reachable"), Str("")}

ExcInfo(type, value) == [type |-> type, value |-> value]
CallInfo(excinfo) == [when |-> "call", excinfo |-> excinfo]
TestReport(n, excinfo) ==
    [nodeid |-> n.nodeid, outcome |-> "failed",
     longrepr |-> IF excinfo = None THEN "" ELSE excinfo.type.name]

OptionValues(attr) ==
    CASE attr = "mcp_log_level" -> {Str("WARNING"), Str("DEBUG")}
      [] attr = "mcp_timeout" -> {Float(300), Float(5)}
      [] attr = "mcp_update_snapshots" -> {Bool(FALSE)}
      [] attr = "asyncio_mode" -> {None, Str(""), Str("strict"), Str("auto")}

OptionAttrs == {"mcp_log_level", "mcp_timeout", "mcp_update_snapshots", "asyncio_mode"}

\* The namespaces a hook may be handed: any of the attributes present or not.
Namespaces ==
    UNION {{ns \in [D -> UNION {OptionValues(a) : a \in D}] :
              \A a \in D : ns[a] \in OptionValues(a)} : D \in SUBSET OptionAttrs}

EmptyNamespace == [a \in {} |-> None]

\* The markers lines of the user's own ini file.
UserIni == {<<>>, <<MarkerLine("slow", "mark test as slow")>>}

\* pytest-asyncio's option, registered before this plugin's when it is installed.
AsyncioOption == Opt("asyncio", "--asyncio-mode", "store", "str", None)
OtherOptions == {<<>>, <<AsyncioOption>>}

Given(name) == CASE name = "--mcp-log-level" -> {"DEBUG"}
                 [] name = "--mcp-timeout" -> {"5", "abc"}
                 [] name = "--mcp-update-snapshots" -> {""}
                 [] name = "--asyncio-mode" -> {"strict"}

OptionNames == {"--mcp-log-level", "--mcp-timeout", "--mcp-update-snapshots",
                "--asyncio-mode"}

CommandLines ==
    UNION {{a \in [D -> UNION {Given(n) : n \in D}] :
              \A n \in D : a[n] \in Given(n)} : D \in SUBSET OptionNames}

HookNames == {"pytest_configure", "pytest_collection_modifyitems",
              "pytest_addoption", "pytest_report_header",
              "pytest_exception_interact"}

Snapshot == [parser |-> parser, option |-> option, inicfg |-> inicfg,
             items |-> items, node |-> node, call |-> call, report |-> report,
             log |-> log]

Enter(h) == hook' = h /\ pre' = [pre EXCEPT ![h] = Snapshot]

(***************************************************************************)
(* The host runner's lifecycle.                                            *)
(***************************************************************************)
Init ==
    /\ pc = "start"
    /\ hook = ""
    /\ pre = [h \in HookNames |-> Pending]
    /\ parser \in OtherOptions
    /\ argv \in CommandLines
    /\ option = EmptyNamespace
    /\ inicfg \in UserIni
    /\ items = <<>>
    /\ running = 1
    /\ node = None
    /\ call = CallInfo(None)
    /\ report = None
    /\ log = <<>>
    /\ ret = Pending

HostAddoption ==
    /\ pc = "start"
    /\ pytest_addoption
    /\ Enter("pytest_addoption")
    /\ pc' = "options"

HostParse ==
    /\ pc = "options"
    /\ IF Usable(parser, argv)
       THEN option' = Namespace(parser, argv) /\ pc' = "parsed"
       ELSE option' = option /\ pc' = "usage_error"
    /\ hook' = ""
    /\ UNCHANGED <<pre, parser, argv, inicfg, items, running, node, call, report,
                   log, ret>>

HostConfigure ==
    /\ pc = "parsed"
    /\ pytest_configure
    /\ Enter("pytest_configure")
    /\ pc' = "configured"

HostReportHeader ==
    /\ pc = "configured"
    /\ pytest_report_header
    /\ Enter("pytest_report_header")
    /\ pc' = "session"

\* The tests of a session of the host: test functions with the plugin's
\* client or server fixtures or neither, and items of other kinds.
SessionFixtureLists == {f \in FixtureLists : Range(f) \subseteq {"mcp_client", "mcp_test_server"}}

\* Collection finds the session's items one at a time.
HostCollect ==
    /\ pc = "session"
    /\ Len(items) < MaxItems
    /\ \E x \in ItemsAt(Len(items) + 1, SessionFixtureLists, {<<>>}) :
         items' = Append(items, x)
    /\ hook' = ""
    /\ UNCHANGED <<pc, pre, parser, argv, option, inicfg, running, node, call,
                   report, log, ret>>

HostModifyItems ==
    /\ pc = "session"
    /\ pytest_collection_modifyitems
    /\ Enter("pytest_collection_modifyitems")
    /\ pc' = "run"

HostTestPasses ==
    /\ pc = "run"
    /\ running <= Len(items)
    /\ running' = running + 1
    /\ hook' = ""
    /\ UNCHANGED <<pc, pre, parser, argv, option, inicfg, items, node, call,
                   report, log, ret>>

SessionExcTypes == {t \in ExcTypes : t.module = "builtins" /\ t.name \in {"ConnectionError", "ValueError"}}

HostTestRaises ==
    /\ pc = "run"
    /\ running <= Len(items)
    /\ \E t \in SessionExcTypes :
         LET excinfo == ExcInfo(t, Str("server not reachable")) IN
         /\ node' = items[running]
         /\ call' = CallInfo(excinfo)
         /\ report' = TestReport(items[running], excinfo)
    /\ running' = running + 1
    /\ pc' = "raised"
    /\ hook' = ""
    /\ UNCHANGED <<pre, parser, argv, option, inicfg, items, log, ret>>

HostExceptionInteract ==
    /\ pc = "raised"
    /\ pytest_exception_interact
    /\ Enter("pytest_exception_interact")
    /\ pc' = "run"

Next ==
    \/ HostAddoption
    \/ HostParse
    \/ HostConfigure
    \/ HostReportHeader
    \/ HostCollect
    \/ HostModifyItems
    \/ HostTestPasses
    \/ HostTestRaises
    \/ HostExceptionInteract

Spec == Init /\ [][Next]_vars

(***************************************************************************)
(* One hook, called on any arguments.                                      *)
(***************************************************************************)
At(h) == "at " \o h

HookDefaults ==
    /\ hook = ""
    /\ pre = [h \in HookNames |-> Pending]
    /\ argv = EmptyNamespace
    /\ running = 1
    /\ log = <<>>
    /\ ret = Pending

HookInit ==
    /\ HookDefaults
    /\ \/ /\ pc = At("pytest_configure")
          /\ option \in Namespaces
          /\ inicfg \in UserIni
          /\ parser = <<>> /\ items = <<>>
          /\ node = None /\ call = CallInfo(None) /\ report = None
       \/ /\ pc = At("pytest_collection_modifyitems")
          /\ items = <<>>
          /\ option = EmptyNamespace /\ inicfg = <<>> /\ parser = <<>>
          /\ node = None /\ call = CallInfo(None) /\ report = None
       \/ /\ pc = At("pytest_addoption")
          /\ parser \in OtherOptions
          /\ option = EmptyNamespace /\ inicfg = <<>> /\ items = <<>>
          /\ node = None /\ call = CallInfo(None) /\ report = None
       \/ /\ pc = At("pytest_report_header")
          /\ option \in Namespaces \cup {Namespace(McpOptions, EmptyNamespace)}
          /\ inicfg = <<>> /\ parser = <<>> /\ items = <<>>
          /\ node = None /\ call = CallInfo(None) /\ report = None
       \/ /\ pc = At("pytest_exception_interact")
          /\ \E n \in ItemsAt(1, {<<"mcp_client">>}, {<<>>}) \cup ItemsAt(2, {<<>>}, {<<>>}),
                e \in {None} \cup {ExcInfo(t, v) : t \in ExcTypes, v \in ExcValues} :
               /\ node = n
               /\ call = CallInfo(e)
               /\ report = TestReport(n, e)
          /\ option = EmptyNamespace /\ inicfg = <<>> /\ parser = <<>>
          /\ items = <<>>

CallConfigure ==
    /\ pc = At("pytest_configure")
    /\ pytest_configure
    /\ Enter("pytest_configure")
    /\ pc' = "returned"

\* The caller builds the list of items the hook is handed.
GatherItem ==
    /\ pc = At("pytest_collection_modifyitems")
    /\ Len(items) < MaxItems
    /\ \E x \in ItemsAt(Len(items) + 1, FixtureLists, UserMarkers) :
         items' = Append(items, x)
    /\ UNCHANGED <<pc, hook, pre, parser, argv, option, inicfg, running, node,
                   call, report, log, ret>>

CallModifyItems ==
    /\ pc = At("pytest_collection_modifyitems")
    /\ pytest_collection_modifyitems
    /\ Enter("pytest_collection_modifyitems")
    /\ pc' = "returned"

CallAddoption ==
    /\ pc = At("pytest_addoption")
    /\ pytest_addoption
    /\ Enter("pytest_addoption")
    /\ pc' = "returned"

CallReportHeader ==
    /\ pc = At("pytest_report_header")
    /\ pytest_report_header
    /\ Enter("pytest_report_header")
    /\ pc' = "returned"

CallExceptionInteract ==
    /\ pc = At("pytest_exception_interact")
    /\ pytest_exception_interact
    /\ Enter("pytest_exception_interact")
    /\ pc' = "returned"

HookNext ==
    \/ CallConfigure
    \/ GatherItem
    \/ CallModifyItems
    \/ CallAddoption
    \/ CallReportHeader
    \/ CallExceptionInteract

HookSpec == HookInit /\ [][HookNext]_vars

(***************************************************************************)
(* Properties.  They read the state a hook left (hook names the hook that  *)
(* returned last) against the arguments it was entered with (pre).         *)
(***************************************************************************)
\* How many markers named m the collection hook added to the i-th item.
Added(m, i) ==
    Count(m, items[i].own_markers)
    - Count(m, pre["pytest_collection_modifyitems"].items[i].own_markers)

Collected == hook = "pytest_collection_modifyitems"
ItemsBefore == pre["pytest_collection_modifyitems"].items

\* C1: after pytest_collection_modifyitems, every item that has fixturenames
\* was given the mcp marker exactly once when mcp_client or mcp_test_server is
\* among its fixturenames (also when both are), and not at all otherwise.
C1_McpMarkerAddedOnceIffClientOrServer ==
    Collected =>
        /\ DOMAIN items = DOMAIN ItemsBefore
        /\ \A i \in DOMAIN ItemsBefore :
             ItemsBefore[i].hasFixturenames =>
                Added("mcp", i) =
                    IF \E f \in Range(ItemsBefore[i].fixturenames) :
                          f \in {"mcp_client", "mcp_test_server"}
                    THEN 1 ELSE 0

C1_Witness ==
    /\ Collected
    /\ \E i \in DOMAIN items :
         /\ {"mcp_client", "mcp_test_server"} \subseteq Range(ItemsBefore[i].fixturenames)
         /\ ItemsBefore[i].hasFixturenames
         /\ Added("mcp", i) = 1

\* C2: after pytest_collection_modifyitems, every item whose fixturenames holds
\* one of the plugin's MCP fixtures (mcp_client, mcp_server_env,
\* mcp_test_server) carries the mcp marker.
C2_EveryMcpFixtureUserCarriesMcp ==
    Collected =>
        \A i \in DOMAIN items :
            (/\ items[i].hasFixturenames
             /\ \E f \in Range(items[i].fixturenames) :
                   f \in {"mcp_client", "mcp_server_env", "mcp_test_server"})
            => "mcp" \in Range(items[i].own_markers)

\* C3: in the host's lifecycle pytest_configure appends exactly the three
\* markers lines mcp, mcp_integration, mcp_slow, and once the collection hook
\* has run, every marker it added to an item is mcp or mcp_integration and is
\* the name of a line pytest_configure appended before.
C3_AddedMarkersWereRegistered ==
    /\ hook = "pytest_configure" =>
         /\ Len(inicfg) = Len(pre["pytest_configure"].inicfg) + 3
         /\ SubSeq(inicfg, 1, Len(inicfg) - 3) = pre["pytest_configure"].inicfg
         /\ [k \in 1..3 |-> inicfg[Len(inicfg) - 3 + k].name]
              = <<"mcp", "mcp_integration", "mcp_slow">>
    /\ pre["pytest_collection_modifyitems"] # Pending =>
         /\ pre["pytest_configure"] # Pending
         /\ LET first == Len(pre["pytest_configure"].inicfg) + 1
                registered == {inicfg[k].name : k \in first..Len(inicfg)}
            IN  \A i \in DOMAIN items :
                  \A m \in Range(items[i].own_markers) :
                     Added(m, i) > 0 =>
                        m \in registered /\ m \in {"mcp", "mcp_integration"}

C3_Witness ==
    /\ pre["pytest_collection_modifyitems"] # Pending
    /\ \E i \in DOMAIN items :
         Added("mcp", i) = 1 /\ Added("mcp_integration", i) = 1
    /\ Len(inicfg) = 4

\* C4: pytest_addoption registers in group mcp exactly --mcp-log-level,
\* --mcp-timeout and --mcp-update-snapshots, leaving the other options alone;
\* after parsing, config.option holds for each the given value, or its default
\* WARNING, 30.0, False when it is not given (True for the flag when given).
C4_OptionsRegisteredWithDefaults ==
    /\ hook = "pytest_addoption" =>
         LET mcp == SelectSeq(parser, LAMBDA o : o.group = "mcp")
             rest == SelectSeq(parser, LAMBDA o : o.group # "mcp")
         IN  /\ [k \in DOMAIN mcp |-> mcp[k].name]
                  = <<"--mcp-log-level", "--mcp-timeout", "--mcp-update-snapshots">>
             /\ rest = pre["pytest_addoption"].parser
    /\ pc \notin {"start", "options", "usage_error"} =>
         /\ option["mcp_log_level"] =
               IF "--mcp-log-level" \in DOMAIN argv
               THEN Str(argv["--mcp-log-level"]) ELSE Str("WARNING")
         /\ option["mcp_timeout"] =
               IF "--mcp-timeout" \in DOMAIN argv
               THEN ParseFloat(argv["--mcp-timeout"]) ELSE Float(300)
         /\ option["mcp_update_snapshots"] =
               Bool("--mcp-update-snapshots" \in DOMAIN argv)

C4_Witness ==
    /\ pc = "parsed"
    /\ DOMAIN argv = {"--mcp-timeout"}
    /\ option["mcp_timeout"] = Float(50)
    /\ option["mcp_log_level"] = Str("WARNING")
    /\ option["mcp_update_snapshots"] = Bool(FALSE)

Interacted == hook = "pytest_exception_interact"
LogBefore == pre["pytest_exception_interact"].log
Logged == SubSeq(log, Len(LogBefore) + 1, Len(log))
Raised == pre["pytest_exception_interact"].call.excinfo

\* C5: pytest_exception_interact logs nothing when call.excinfo is None; one
\* error record with the node id, the exception value and the mcp_server hint
\* when the type's name is exactly ConnectionError; one with the node id, the
\* value and the --mcp-timeout hint when it is exactly TimeoutError; nothing
\* for any other type name, subclasses included; never more than one record.
C5_ErrorRecordByExactTypeName ==
    Interacted =>
        /\ Len(log) >= Len(LogBefore)
        /\ SubSeq(log, 1, Len(LogBefore)) = LogBefore
        /\ Len(Logged) <= 1
        /\ Raised = None => Logged = <<>>
        /\ (Raised # None /\ Raised.type.name = "ConnectionError") =>
             /\ Len(Logged) = 1
             /\ Logged[1].level = "ERROR"
             /\ { pre["pytest_exception_interact"].node.nodeid,
                  Format(Raised.value),
                  "Check that your mcp_server fixture returns valid server parameters." }
                  \subseteq Range(Logged[1].msg)
        /\ (Raised # None /\ Raised.type.name = "TimeoutError") =>
             /\ Len(Logged) = 1
             /\ Logged[1].level = "ERROR"
             /\ { pre["pytest_exception_interact"].node.nodeid,
                  Format(Raised.value),
                  "Consider increasing timeout with --mcp-timeout option." }
                  \subseteq Range(Logged[1].msg)
        /\ (Raised # None
            /\ Raised.type.name \notin {"ConnectionError", "TimeoutError"}) =>
             Logged = <<>>

C5_Witness ==
    /\ Interacted
    /\ Raised # None
    /\ Raised.type.name = "TimeoutError"
    /\ Len(Logged) = 1
    /\ "Consider increasing timeout with --mcp-timeout option." \in Range(Logged[1].msg)

\* C6: pytest_configure sets config.option.asyncio_mode to "auto" exactly when
\* the attribute exists with a falsy value (None or empty); it leaves a
\* non-empty value as it is, creates no attribute and touches no other one.
C6_AsyncioModeDefaultedOnlyWhenUnset ==
    hook = "pytest_configure" =>
        LET old == pre["pytest_configure"].option IN
        /\ DOMAIN option = DOMAIN old
        /\ \A a \in DOMAIN old \ {"asyncio_mode"} : option[a] = old[a]
        /\ "asyncio_mode" \in DOMAIN old =>
             IF old["asyncio_mode"] \in {None, Str("")}
             THEN option["asyncio_mode"] = Str("auto")
             ELSE option["asyncio_mode"] = old["asyncio_mode"]

C6_Witness ==
    /\ hook = "pytest_configure"
    /\ "asyncio_mode" \in DOMAIN option
    /\ pre["pytest_configure"].option["asyncio_mode"] = None
    /\ option["asyncio_mode"] = Str("auto")

\* C7: after pytest_collection_modifyitems, an item that has fixturenames was
\* given mcp_integration exactly when mcp_test_server is among them; an item
\* given mcp_integration was given mcp too, and one with mcp_client but not
\* mcp_test_server was given mcp and not mcp_integration.
C7_IntegrationMarkerIffTestServer ==
    Collected =>
        \A i \in DOMAIN ItemsBefore :
            LET names == Range(ItemsBefore[i].fixturenames) IN
            /\ ItemsBefore[i].hasFixturenames =>
                 (Added("mcp_integration", i) > 0 <=> "mcp_test_server" \in names)
            /\ Added("mcp_integration", i) > 0 => Added("mcp", i) > 0
            /\ (/\ ItemsBefore[i].hasFixturenames
                /\ "mcp_client" \in names
                /\ "mcp_test_server" \notin names)
               => Added("mcp", i) > 0 /\ Added("mcp_integration", i) = 0

C7_Witness ==
    /\ Collected
    /\ \E i, j \in DOMAIN items :
         /\ Range(ItemsBefore[i].fixturenames) = {"mcp_client"}
         /\ Added("mcp", i) = 1 /\ Added("mcp_integration", i) = 0
         /\ Range(ItemsBefore[j].fixturenames) = {"mcp_test_server"}
         /\ Added("mcp_integration", j) = 1

\* C8: pytest_report_header returns the line "mcp: log-level=<value>" exactly
\* when config.option has mcp_log_level, followed by "mcp: timeout=<value>s"
\* exactly when it has mcp_timeout, and nothing else; it leaves config.option
\* as it was; with the defaults of pytest_addoption the lines are
\* "mcp: log-level=WARNING" and "mcp: timeout=30.0s".
C8_HeaderLinesPerAttribute ==
    hook = "pytest_report_header" =>
        LET opt == pre["pytest_report_header"].option
            n1 == IF "mcp_log_level" \in DOMAIN opt THEN 1 ELSE 0
            n2 == IF "mcp_timeout" \in DOMAIN opt THEN 1 ELSE 0
        IN  /\ ret.t = "list"
            /\ Len(ret.l) = n1 + n2
            /\ n1 = 1 => ret.l[1] = "mcp: log-level=" \o Format(opt["mcp_log_level"])
            /\ n2 = 1 => ret.l[n1 + 1] = "mcp: timeout=" \o Format(opt["mcp_timeout"]) \o "s"
            /\ option = opt
            /\ opt = Namespace(McpOptions, EmptyNamespace) =>
                 ret.l = <<"mcp: log-level=WARNING", "mcp: timeout=30.0s">>

C8_Witness ==
    /\ hook = "pytest_report_header"
    /\ DOMAIN option = {"mcp_log_level", "mcp_timeout", "mcp_update_snapshots"}
    /\ option["mcp_update_snapshots"] = Bool(FALSE)
    /\ ret = List(<<"mcp: log-level=WARNING", "mcp: timeout=30.0s">>)

\* C9: pytest_collection_modifyitems keeps the items and their order, removes
\* no marker, gives no marker to an item without fixturenames or with neither
\* mcp_client nor mcp_test_server among them, and never adds mcp_slow.
C9_OnlyMarkersAdded ==
    Collected =>
        /\ Len(items) = Len(ItemsBefore)
        /\ \A i \in DOMAIN ItemsBefore :
             LET old == ItemsBefore[i] IN
             /\ [items[i] EXCEPT !.own_markers = old.own_markers] = old
             /\ \A m \in Range(old.own_markers) \cup Range(items[i].own_markers) :
                  Added(m, i) >= 0
             /\ (\/ ~old.hasFixturenames
                 \/ Range(old.fixturenames) \cap {"mcp_client", "mcp_test_server"} = {})
                => items[i].own_markers = old.own_markers
             /\ Added("mcp_slow", i) = 0

C9_Witness ==
    /\ Collected
    /\ Len(items) = 2
    /\ ~items[1].hasFixturenames
    /\ items[1].own_markers = <<"slow">>
    /\ ItemsBefore[2].own_markers = <<"slow">>
    /\ items[2].own_markers = <<"slow", "mcp", "mcp_integration">>

\* C10: pytest_exception_interact leaves node, call and report as they were
\* and returns None; it logs at most one record and changes nothing else.
C10_ExceptionOnlyObserved ==
    Interacted =>
        /\ node = pre["pytest_exception_interact"].node
        /\ call = pre["pytest_exception_interact"].call
        /\ report = pre["pytest_exception_interact"].report
        /\ ret = None
        /\ Len(log) <= Len(LogBefore) + 1
        /\ items = pre["pytest_exception_interact"].items
        /\ option = pre["pytest_exception_interact"].option
        /\ inicfg = pre["pytest_exception_interact"].inicfg
        /\ parser = pre["pytest_exception_interact"].parser

C10_Witness ==
    /\ Interacted
    /\ Raised # None
    /\ Raised.type.name = "ConnectionError"
    /\ report.outcome = "failed"
    /\ report.longrepr = "ConnectionError"
    /\ Len(Logged) = 1

====
